---- MODULE Spec2Model ----
(***************************************************************************)
(* A model of neomt3's event codec (event_codec.py) and of the run-length  *)
(* shift encoding built on it (run_length_encoding.py).                    *)
(*                                                                         *)
(* The codec is an immutable object; every operation on it is a pure       *)
(* function of the codec and its argument.  The state of the model is the  *)
(* codec, the last call made on it with its result, and the token tensor   *)
(* that travels through the run-length pipeline.                           *)
(***************************************************************************)
EXTENDS Integers, Sequences, FiniteSets, TLC

VARIABLES
    codec,      \* the Codec object: its fields after __init__
    call,       \* the last call made on the codec: [op, ...arguments]
    result,     \* what that call returned or raised
    input,      \* the token tensor handed to the run-length pipeline
    tokens,     \* the tensor as the pipeline's last step left it
    stage,      \* which pipeline steps have run on `tokens`
    targets     \* the two-row array handed to the target merger

vars == <<codec, call, result, input, tokens, stage, targets>>

(***************************************************************************)
(* Bounds of the model.                                                    *)
(***************************************************************************)
MaxTypes == 2      \* longest event_types list of a codec
MaxVal == 2        \* largest range endpoint and event value
MaxShift == 3      \* largest endpoint of the 'shift' range in the pipeline
MaxLen == 3        \* longest enumerated token tensor

(***************************************************************************)
(* Codec.__init__                                                          *)
(***************************************************************************)
pad_token == 0
sos_token == 1
eos_token == 2
num_special_tokens == 3

Range(s) == {s[i] : i \in 1..Len(s)}

\* One (min, max) entry of event_ranges: its number of values.
num_values(event_ranges, event_type) ==
    event_ranges[event_type][2] - event_ranges[event_type][1] + 1

\* The sum of num_values over a set of event types.
RECURSIVE offset_of_types(_, _)
offset_of_types(event_ranges, types) ==
    IF types = {} THEN 0
    ELSE LET t == CHOOSE x \in types : TRUE
         IN  num_values(event_ranges, t)
             + offset_of_types(event_ranges, types \ {t})

\* The constructor's loop, were it to run over every entry of event_ranges
\* instead of over the first n event types.
current_offset_of_all_ranges(event_types, event_ranges, n) ==
    offset_of_types(event_ranges, DOMAIN event_ranges)

\* The constructor's loop: current_offset after the first n event types.
RECURSIVE current_offset(_, _, _)
current_offset(event_types, event_ranges, n) ==
    IF n = 0 THEN 0
    ELSE current_offset(event_types, event_ranges, n - 1)
         + num_values(event_ranges, event_types[n])

CodecInit(event_types, event_ranges) ==
    [event_types        |-> event_types,
     event_ranges       |-> event_ranges,
     pad_token          |-> pad_token,
     sos_token          |-> sos_token,
     eos_token          |-> eos_token,
     num_special_tokens |-> num_special_tokens,
     token_ranges       |-> [t \in Range(event_types) |-> event_ranges[t]],
     num_classes        |-> current_offset(event_types, event_ranges,
                                           Len(event_types))
                            + num_special_tokens]

(***************************************************************************)
(* Results.  A raised ValueError and a returned None are results too.      *)
(***************************************************************************)
ValueError == [status |-> "ValueError"]
None == [status |-> "None"]
Event(type, value) == [status |-> "ok", type |-> type, value |-> value]

(***************************************************************************)
(* Codec.encode_event                                                      *)
(***************************************************************************)
\* The loop of encode_event from position i on: the offset at the first
\* event type equal to `type`.
RECURSIVE encode_offset(_, _, _, _)
encode_offset(self, type, i, offset) ==
    IF i > Len(self.event_types) THEN offset
    ELSE IF self.event_types[i] = type THEN offset
    ELSE encode_offset(self, type, i + 1,
                       offset + num_values(self.event_ranges, self.event_types[i]))

\* encode_event without its membership test.
encode_event_unchecked(self, event) ==
    [status |-> "ok",
     token  |-> encode_offset(self, event.type, 1, self.num_special_tokens)
                + event.value]

encode_event(self, event) ==
    IF event.type \notin Range(self.event_types) THEN ValueError
    ELSE [status |-> "ok",
          token  |-> encode_offset(self, event.type, 1, self.num_special_tokens)
                     + event.value]

(***************************************************************************)
(* Codec.decode_event                                                      *)
(***************************************************************************)
RECURSIVE decode_scan(_, _, _, _)
decode_scan(self, token, i, current_token) ==
    IF i > Len(self.event_types) THEN None
    ELSE LET event_type == self.event_types[i]
             min_val == self.event_ranges[event_type][1]
             n == num_values(self.event_ranges, event_type)
         IN  IF token < current_token + n
             THEN Event(event_type, token - current_token + min_val)
             ELSE decode_scan(self, token, i + 1, current_token + n)

decode_event(self, token) ==
    IF token < self.num_special_tokens THEN None
    ELSE decode_scan(self, token, 1, self.num_special_tokens)

(***************************************************************************)
(* Codec.event_type_range                                                  *)
(***************************************************************************)
event_type_range(self, event_type) ==
    IF event_type \notin Range(self.event_types) THEN ValueError
    ELSE [status |-> "ok", range |-> self.event_ranges[event_type]]

(***************************************************************************)
(* The codecs, events and tokens the model enumerates.                     *)
(***************************************************************************)
TypeNames == {"shift", "note"}
UnknownType == "invalid_type"

TypeLists == UNION {[1..n -> TypeNames] : n \in 1..MaxTypes}

\* Codec.__init__ takes any pair of integers as a range: it validates nothing.
RangeMaps == [TypeNames -> (0..MaxVal) \X (0..MaxVal)]

Codecs == {CodecInit(ts, rs) : ts \in TypeLists, rs \in RangeMaps}

Events == [type : TypeNames \cup {UnknownType}, value : 0..MaxVal]

\* One token below 0 and two past the largest num_classes.
Tokens == (0 - 1)..(num_special_tokens + MaxTypes * (MaxVal + 1) + 1)

NoCall == [op |-> "init"]
NoTensor == <<>>

(***************************************************************************)
(* The codec's interface: any call, any time, on the same codec.           *)
(***************************************************************************)
Init ==
    /\ codec \in Codecs
    /\ call = NoCall
    /\ result = None
    /\ input = NoTensor
    /\ tokens = NoTensor
    /\ stage = "codec"
    /\ targets = NoTensor

EncodeEvent ==
    \E event \in Events :
        /\ call' = [op |-> "encode_event", event |-> event]
        /\ result' = encode_event(codec, event)
        /\ UNCHANGED <<codec, input, tokens, stage, targets>>

DecodeEvent ==
    \E token \in Tokens :
        /\ call' = [op |-> "decode_event", token |-> token]
        /\ result' = decode_event(codec, token)
        /\ UNCHANGED <<codec, input, tokens, stage, targets>>

EventTypeRange ==
    \E event_type \in TypeNames \cup {UnknownType} :
        /\ call' = [op |-> "event_type_range", event_type |-> event_type]
        /\ result' = event_type_range(codec, event_type)
        /\ UNCHANGED <<codec, input, tokens, stage, targets>>

Next == EncodeEvent \/ DecodeEvent \/ EventTypeRange

Spec == Init /\ [][Next]_vars

(***************************************************************************)
(* run_length_encode_shifts and run_length_decode_shifts.  Both take the   *)
(* pair that event_type_range('shift') returns as the bounds of the shift  *)
(* tokens and compare the tokens of the tensor with it.                    *)
(***************************************************************************)
\* EventEncodingSpec's default; neither function reads it.
max_shift_steps == 100

in_shift_range(token, shift_start, shift_end) ==
    shift_start <= token /\ token <= shift_end

\* The counting loop, were it to stop at the first token that differs from the
\* run's first one.
RECURSIVE count_identical_shifts(_, _, _, _, _)
count_identical_shifts(toks, i, count, shift_start, shift_end) ==
    IF /\ i + count <= Len(toks)
       /\ in_shift_range(toks[i + count], shift_start, shift_end)
       /\ toks[i + count] = toks[i]
    THEN count_identical_shifts(toks, i, count + 1, shift_start, shift_end)
    ELSE count

\* "Count consecutive shifts": the inner while loop, from a run's first token
\* at position i (positions count from 1 here).
RECURSIVE count_shifts(_, _, _, _, _)
count_shifts(toks, i, count, shift_start, shift_end) ==
    IF /\ i + count <= Len(toks)
       /\ in_shift_range(toks[i + count], shift_start, shift_end)
    THEN count_shifts(toks, i, count + 1, shift_start, shift_end)
    ELSE count

\* The outer while loop of run_length_encode_shifts.
RECURSIVE encode_shifts(_, _, _, _, _)
encode_shifts(toks, i, encoded, shift_start, shift_end) ==
    IF i > Len(toks) THEN encoded
    ELSE IF in_shift_range(toks[i], shift_start, shift_end)
    THEN LET count == count_shifts(toks, i, 1, shift_start, shift_end)
         IN  encode_shifts(toks, i + count,
                           Append(encoded, toks[i] + count - 1),
                           shift_start, shift_end)
    ELSE encode_shifts(toks, i + 1, Append(encoded, toks[i]),
                       shift_start, shift_end)

run_length_encode_shifts(toks, self) ==
    LET r == event_type_range(self, "shift")
    IN  IF r.status # "ok" THEN r
        ELSE [status |-> "ok",
              tokens |-> encode_shifts(toks, 1, <<>>, r.range[1], r.range[2])]

\* [shift_start] * count
repeat(token, count) == [k \in 1..count |-> token]

\* The for loop, were count the token itself instead of
\* token - shift_start + 1.
RECURSIVE decode_shifts_without_offset(_, _, _, _, _)
decode_shifts_without_offset(toks, i, decoded, shift_start, shift_end) ==
    IF i > Len(toks) THEN decoded
    ELSE IF in_shift_range(toks[i], shift_start, shift_end)
    THEN decode_shifts_without_offset(
             toks, i + 1, decoded \o repeat(shift_start, toks[i]),
             shift_start, shift_end)
    ELSE decode_shifts_without_offset(
             toks, i + 1, Append(decoded, toks[i]), shift_start, shift_end)

\* The for loop of run_length_decode_shifts.
RECURSIVE decode_shifts(_, _, _, _, _)
decode_shifts(toks, i, decoded, shift_start, shift_end) ==
    IF i > Len(toks) THEN decoded
    ELSE IF in_shift_range(toks[i], shift_start, shift_end)
    THEN decode_shifts(toks, i + 1,
                       decoded \o repeat(shift_start, toks[i] - shift_start + 1),
                       shift_start, shift_end)
    ELSE decode_shifts(toks, i + 1, Append(decoded, toks[i]),
                       shift_start, shift_end)

run_length_decode_shifts(toks, self) ==
    LET r == event_type_range(self, "shift")
    IN  IF r.status # "ok" THEN r
        ELSE [status |-> "ok",
              tokens |-> decode_shifts(toks, 1, <<>>, r.range[1], r.range[2])]

(***************************************************************************)
(* The codecs and tensors of the run-length pipeline.                      *)
(***************************************************************************)
\* The codec of run_length_encoding_test.py; it registers no 'shift' type.
\* note_seq's MIDI pitch and program bounds are 0 and 127.
TestCodec ==
    CodecInit(<<"pitch", "velocity", "drum", "program", "tie">>,
              [t \in {"pitch", "velocity", "drum", "program", "tie"} |->
                  IF t = "tie" THEN <<0, 0>> ELSE <<0, 127>>])

\* A codec whose 'shift' range is (1, max_shift_steps): the one under which
\* token 1 of the test tensors is the single step and 100 the longest shift.
StepCodec ==
    CodecInit(<<"shift", "pitch">>,
              [t \in {"shift", "pitch"} |->
                  IF t = "shift" THEN <<1, max_shift_steps>> ELSE <<0, 127>>])

ShiftCodecs ==
    {CodecInit(<<"shift", "note">>,
               [t \in TypeNames |-> IF t = "shift" THEN <<lo, hi>> ELSE <<0, 1>>]) :
        lo \in 0..MaxShift, hi \in 0..MaxShift}

PipelineCodecs ==
    ShiftCodecs
    \cup {CodecInit(<<"note">>, [t \in TypeNames |-> <<0, 1>>])}
    \cup {StepCodec, TestCodec}

\* Tensors of run_length_encoding_test.py.
ShiftsTensor == <<1, 1, 1, 161, 1, 1, 1, 162, 1, 1, 1>>
SimultaneousTensor == <<1, 1, 1, 161, 162, 1, 1, 1>>

TestTensors == {ShiftsTensor, SimultaneousTensor}

\* The special tokens, every candidate shift token and two tokens past them.
PipelineTokens == 0..(MaxShift + 2)

Tensors == UNION {[1..n -> PipelineTokens] : n \in 0..MaxLen} \cup TestTensors

(***************************************************************************)
(* The run-length pipeline: a tensor is encoded, decoded, or encoded and   *)
(* then decoded.                                                           *)
(***************************************************************************)
InitPipeline ==
    /\ codec \in PipelineCodecs
    /\ call = NoCall
    /\ result = None
    /\ input \in Tensors
    /\ tokens = input
    /\ stage = "raw"
    /\ targets = NoTensor

RunLengthEncodeShifts ==
    /\ stage = "raw"
    /\ LET r == run_length_encode_shifts(tokens, codec)
       IN  IF r.status = "ok"
           THEN tokens' = r.tokens /\ stage' = "encoded"
           ELSE tokens' = tokens /\ stage' = "encode raised"
    /\ UNCHANGED <<codec, call, result, input, targets>>

RunLengthDecodeShifts ==
    /\ stage \in {"raw", "encoded"}
    /\ LET r == run_length_decode_shifts(tokens, codec)
       IN  IF r.status = "ok"
           THEN /\ tokens' = r.tokens
                /\ stage' = IF stage = "raw" THEN "decoded" ELSE "round trip"
           ELSE tokens' = tokens /\ stage' = "decode raised"
    /\ UNCHANGED <<codec, call, result, input, targets>>

NextPipeline == RunLengthEncodeShifts \/ RunLengthDecodeShifts

SpecPipeline == InitPipeline /\ [][NextPipeline]_vars

(***************************************************************************)
(* The redundant state-change remover and the run-length target merger.    *)
(* run_length_encoding_test.py calls remove_redundant_state_changes_fn and *)
(* merge_run_length_encoded_targets; run_length_encoding.py defines        *)
(* neither, so both follow the specification's sections 4.4 and 4.5, on    *)
(* top of the Codec above.                                                 *)
(***************************************************************************)
MaxRowLen == 2     \* longest enumerated row of a targets array

\* The remover's loop from position i on.  `state` holds the last value seen
\* per tracked type (-1: none yet).  The boundary token 2 does not reset it:
\* the specification's fixture drops a repeated value across it.
RECURSIVE remove_from(_, _, _, _, _, _)
remove_from(self, toks, i, state, out, state_change_event_types) ==
    IF i > Len(toks) THEN out
    ELSE LET e == decode_event(self, toks[i])
         IN  IF e.status = "ok" /\ e.type \in state_change_event_types
             THEN IF state[e.type] = e.value
                  THEN remove_from(self, toks, i + 1, state, out,
                                   state_change_event_types)
                  ELSE remove_from(self, toks, i + 1,
                                   [state EXCEPT ![e.type] = e.value],
                                   Append(out, toks[i]),
                                   state_change_event_types)
             ELSE remove_from(self, toks, i + 1, state, Append(out, toks[i]),
                              state_change_event_types)

remove_redundant_state_changes(toks, self, state_change_event_types) ==
    remove_from(self, toks, 1, [t \in state_change_event_types |-> 0 - 1],
                <<>>, state_change_event_types)

\* The time of position i of a row: the steps of the last shift token before
\* it (a shift token of an encoded row carries the steps since the start).
time_at(row, i, shift_start, shift_end) ==
    LET shifts == {j \in 1..(i - 1) :
                      /\ row[j] # pad_token
                      /\ in_shift_range(row[j], shift_start, shift_end)}
    IN  IF shifts = {} THEN 0
        ELSE row[CHOOSE j \in shifts : \A k \in shifts : k <= j]
             - shift_start + 1

\* The events of the rows: <<time, row, position>> of every token that is
\* neither pad nor a shift token.
events_of(rows, shift_start, shift_end) ==
    {<<time_at(rows[r], i, shift_start, shift_end), r, i>> :
        r \in 1..Len(rows), i \in 1..Len(rows[1])}
    \cap {<<t, r, i>> \in (0..(shift_end - shift_start + 1))
                            \X (1..Len(rows)) \X (1..Len(rows[1])) :
             /\ rows[r][i] # pad_token
             /\ ~in_shift_range(rows[r][i], shift_start, shift_end)}

\* Earlier time first; at equal time the earlier row, then the earlier
\* position.
before(a, b) ==
    \/ a[1] < b[1]
    \/ a[1] = b[1] /\ a[2] < b[2]
    \/ a[1] = b[1] /\ a[2] = b[2] /\ a[3] < b[3]

\* The merged stream from the k-th event on, `now` being the time of the
\* last shift token emitted.
RECURSIVE merge_from(_, _, _, _, _)
merge_from(rows, events, k, now, shift_start) ==
    IF k > Cardinality(events) THEN <<>>
    ELSE LET e == CHOOSE x \in events :
                     Cardinality({y \in events : before(y, x)}) = k - 1
         IN  (IF e[1] > now THEN <<shift_start + e[1] - 1>> ELSE <<>>)
             \o <<rows[e[2]][e[3]]>>
             \o merge_from(rows, events, k + 1, e[1], shift_start)

merge_run_length_encoded_targets(rows, self) ==
    LET r == event_type_range(self, "shift")
    IN  IF r.status # "ok" THEN r
        ELSE [status |-> "ok",
              tokens |-> merge_from(rows,
                                    events_of(rows, r.range[1], r.range[2]),
                                    1, 0, r.range[1])]

\* The tracked types of test_remove_redundant_state_changes.
StateChangeTypes == {"velocity", "program"}

\* A small codec with a shift type and both tracked types.
StateCodec ==
    CodecInit(<<"shift", "velocity", "program">>,
              [t \in {"shift", "velocity", "program"} |->
                  IF t = "shift" THEN <<1, 2>> ELSE <<0, 1>>])

TargetCodecs == {TestCodec, StepCodec, StateCodec}

\* The tensor of test_remove_redundant_state_changes and what it expects.
StateChangeTensor == <<3, 525, 356, 161, 2, 525, 356, 161, 355, 394>>
StateChangeExpected == <<3, 525, 356, 161, 2, 161, 355, 394>>

\* The array of test_merge_run_length_encoded_targets and what it expects.
MergeTargets == <<<<3, 161, 162, 5, 163>>, <<160, 164, 3, 165, 0>>>>
MergeExpected == <<160, 164, 3, 161, 162, 165, 5, 163>>

\* The tokens of StateCodec, special tokens included.
TargetTokens == 0..(StateCodec.num_classes - 1)

StateTensors ==
    UNION {[1..n -> TargetTokens] : n \in 0..MaxLen} \cup {StateChangeTensor}

TargetArrays ==
    UNION {[1..2 -> [1..n -> TargetTokens]] : n \in 1..MaxRowLen}
    \cup {MergeTargets}

InitTargets ==
    /\ codec \in TargetCodecs
    /\ call = NoCall
    /\ result = None
    /\ \/ /\ stage = "raw"
          /\ input \in StateTensors
          /\ tokens = input
          /\ targets = NoTensor
       \/ /\ stage = "rows"
          /\ input = NoTensor
          /\ tokens = NoTensor
          /\ targets \in TargetArrays

RemoveRedundantStateChanges ==
    /\ stage = "raw"
    /\ tokens' = remove_redundant_state_changes(tokens, codec, StateChangeTypes)
    /\ stage' = "deduplicated"
    /\ UNCHANGED <<codec, call, result, input, targets>>

MergeRunLengthEncodedTargets ==
    /\ stage = "rows"
    /\ LET r == merge_run_length_encoded_targets(targets, codec)
       IN  IF r.status = "ok"
           THEN tokens' = r.tokens /\ stage' = "merged"
           ELSE tokens' = tokens /\ stage' = "merge raised"
    /\ UNCHANGED <<codec, call, result, input, targets>>

NextTargets == RemoveRedundantStateChanges \/ MergeRunLengthEncodedTargets

SpecTargets == InitTargets /\ [][NextTargets]_vars

(***************************************************************************)
(* Claims about the codec's interface, checked under Spec.                 *)
(***************************************************************************)
\* Every registered range has min <= max.
ValidRanges(self) ==
    \A t \in Range(self.event_types) :
        self.event_ranges[t][1] <= self.event_ranges[t][2]

\* No event type is registered twice.
DistinctTypes(self) ==
    \A i, j \in 1..Len(self.event_types) :
        self.event_types[i] = self.event_types[j] => i = j

\* The events of registered type whose value lies in the type's [min, max].
ValidEvents(self) ==
    {e \in [type : Range(self.event_types), value : 0..MaxVal] :
        /\ self.event_ranges[e.type][1] <= e.value
        /\ e.value <= self.event_ranges[e.type][2]}

\* Where the block of `type` starts when blocks are laid out back to back in
\* registration order after the special tokens.
BlockStart(self, type) ==
    LET first == CHOOSE i \in 1..Len(self.event_types) :
                    /\ self.event_types[i] = type
                    /\ \A j \in 1..(i - 1) : self.event_types[j] # type
    IN  self.num_special_tokens
        + current_offset(self.event_types, self.event_ranges, first - 1)

\* C1: for every codec whose ranges have min <= max and every valid event of
\* a registered type, decode_event(encode_event(event)) is that event: a
\* decode_event call on the token of a valid event returns the event.
C1_DecodeInvertsEncode ==
    (call.op = "decode_event" /\ ValidRanges(codec)) =>
        \A e \in ValidEvents(codec) :
            encode_event(codec, e) = [status |-> "ok", token |-> call.token]
                => result = Event(e.type, e.value)

\* C2: encode_event is injective over the valid events of all registered
\* types, every such token lies in [num_special_tokens, num_classes), and each
\* type's tokens are the contiguous block that follows the blocks of the types
\* registered before it.
C2_EncodeInjectiveInBlocks ==
    (/\ call.op = "encode_event"
     /\ ValidRanges(codec)
     /\ DistinctTypes(codec)
     /\ call.event \in ValidEvents(codec)) =>
        /\ result.status = "ok"
        /\ codec.num_special_tokens <= result.token
        /\ result.token < codec.num_classes
        /\ \A e \in ValidEvents(codec) :
              encode_event(codec, e) = result => e = call.event
        /\ result.token = BlockStart(codec, call.event.type)
                          + (call.event.value
                             - codec.event_ranges[call.event.type][1])

\* What C3 says of one decode_event call.
DecodeAsClaimed(self, token, res) ==
    /\ (token < self.num_special_tokens \/ token >= self.num_classes)
          => res = None
    /\ (self.num_special_tokens <= token /\ token < self.num_classes)
          => /\ res.status = "ok"
             /\ res.type \in Range(self.event_types)
             /\ self.event_ranges[res.type][1] <= res.value
             /\ res.value <= self.event_ranges[res.type][2]

\* C3: decode_event returns None for every token below num_special_tokens and
\* for every token >= num_classes, and for every token in between exactly one
\* event of a registered type with its value inside the type's [min, max].
C3_DecodeTotalAndExplicit ==
    call.op = "decode_event" => DecodeAsClaimed(codec, call.token, result)

\* The same statement for the codecs whose registered ranges all have
\* min <= max; it holds, with ranges whose min is not 0 included.
DecodeAsClaimedOnValidRanges ==
    (call.op = "decode_event" /\ ValidRanges(codec))
        => DecodeAsClaimed(codec, call.token, result)

\* The event type a call names.
CalledType(c) ==
    IF c.op = "encode_event" THEN c.event.type
    ELSE IF c.op = "event_type_range" THEN c.event_type
    ELSE "none"

\* C10: encode_event and event_type_range called with an event type that is
\* not registered raise ValueError, and the call leaves the codec (types,
\* ranges, special tokens, num_classes) as it was.
C10_UnknownTypeRaises ==
    [][(/\ call'.op \in {"encode_event", "event_type_range"}
        /\ CalledType(call') \notin Range(codec.event_types))
          => (result' = ValueError /\ codec' = codec)]_vars

\* An encode_event call with an unregistered type has raised.
C10_Witness ==
    /\ call.op = "encode_event"
    /\ call.event.type \notin Range(codec.event_types)
    /\ result = ValueError

(***************************************************************************)
(* Claims about the run-length pipeline, checked under SpecPipeline.       *)
(***************************************************************************)
HasShift(self) == "shift" \in Range(self.event_types)

ShiftStart(self) == self.event_ranges["shift"][1]
ShiftEnd(self) == self.event_ranges["shift"][2]

\* The number of steps the shift range can carry in one token.
ShiftCapacity(self) == ShiftEnd(self) - ShiftStart(self) + 1

IsShiftToken(self, token) ==
    ShiftStart(self) <= token /\ token <= ShiftEnd(self)

\* Every token of seq that lies in the shift range is the canonical one.
OnlyCanonicalShifts(self, seq) ==
    \A i \in 1..Len(seq) :
        IsShiftToken(self, seq[i]) => seq[i] = ShiftStart(self)

\* No run of canonical shift tokens is longer than the range can carry.
RunsFit(self, seq) ==
    \A i, j \in 1..Len(seq) :
        (\A k \in i..j : seq[k] = ShiftStart(self))
            => j - i + 1 <= ShiftCapacity(self)

\* C4: encoding and then decoding gives back every tensor in which each time
\* step is the canonical shift token and no run outgrows the shift range; the
\* tensor may end with shift tokens and may hold the special tokens 0, 1, 2.
C4_RoundTripIdentity ==
    (/\ stage = "round trip"
     /\ HasShift(codec)
     /\ \A i \in 1..Len(input) :
           \/ input[i] \in {pad_token, sos_token, eos_token}
           \/ input[i] = ShiftStart(codec)
           \/ ~IsShiftToken(codec, input[i])
     /\ RunsFit(codec, input))
        => tokens = input

\* The round trip does hold for the tensors in which no token but the
\* canonical one lies between the bounds the functions compare with.
RoundTripOfCanonicalShifts ==
    (/\ stage = "round trip"
     /\ HasShift(codec)
     /\ OnlyCanonicalShifts(codec, input)
     /\ RunsFit(codec, input))
        => tokens = input

\* The length of the run of canonical shift tokens that seq starts with.
LeadingRun(self, seq) ==
    CHOOSE n \in 0..Len(seq) :
        /\ \A k \in 1..n : seq[k] = ShiftStart(self)
        /\ n < Len(seq) => seq[n + 1] # ShiftStart(self)

\* A run of n steps as the claim splits it: full tokens, then the remainder.
SplitRun(self, n) ==
    LET cap == ShiftCapacity(self)
        full == n \div cap
        rest == n % cap
    IN  [k \in 1..full |-> ShiftEnd(self)]
        \o (IF rest > 0 THEN <<ShiftStart(self) + rest - 1>> ELSE <<>>)

\* C5: no emitted shift token stands for more steps than the maximum: a
\* leading run of n single-step shift tokens before an event is emitted as
\* floor(n / max) tokens equal to the maximum and then one remainder token
\* when the remainder is not zero, and the event follows them.
C5_RunsSplitAtMaximum ==
    (/\ stage = "encoded"
     /\ HasShift(codec)
     /\ ShiftCapacity(codec) >= 1
     /\ LeadingRun(codec, input) >= 1
     /\ LeadingRun(codec, input) < Len(input)
     /\ ~IsShiftToken(codec, input[LeadingRun(codec, input) + 1]))
        => LET n == LeadingRun(codec, input)
               expected == SplitRun(codec, n) \o <<input[n + 1]>>
           IN  /\ Len(tokens) >= Len(expected)
               /\ SubSeq(tokens, 1, Len(expected)) = expected

\* Position i of seq continues the run of position i - 1: both tokens lie in
\* the shift range.
ContinuesRun(self, seq, i) ==
    /\ i > 1
    /\ IsShiftToken(self, seq[i])
    /\ IsShiftToken(self, seq[i - 1])

\* The same, for runs of strictly identical tokens only.
ContinuesIdenticalRun(self, seq, i) ==
    ContinuesRun(self, seq, i) /\ seq[i] = seq[i - 1]

\* The encoding of seq run by run: one token per run, its first token plus
\* (length - 1) for a run of shift tokens, the token itself for any other
\* token.  With `identical` a run holds strictly identical tokens only.
EncodedByRuns(self, seq, identical) ==
    LET continues(i) == IF identical THEN ContinuesIdenticalRun(self, seq, i)
                        ELSE ContinuesRun(self, seq, i)
        starts == {i \in 1..Len(seq) : ~continues(i)}
        last(i) == CHOOSE j \in i..Len(seq) :
                      /\ \A k \in (i + 1)..j : continues(k)
                      /\ j < Len(seq) => ~continues(j + 1)
        start(k) == CHOOSE i \in starts :
                      Cardinality({j \in starts : j <= i}) = k
    IN  [k \in 1..Cardinality(starts) |->
            IF IsShiftToken(self, seq[start(k)])
            THEN seq[start(k)] + (last(start(k)) - start(k))
            ELSE seq[start(k)]]

RECURSIVE CumulativeEncoding(_, _, _, _)
CumulativeEncoding(self, seq, i, steps) ==
    IF i > Len(seq) THEN <<>>
    ELSE IF IsShiftToken(self, seq[i])
    THEN CumulativeEncoding(self, seq, i + 1, steps + 1)
    ELSE (IF i > 1 /\ IsShiftToken(self, seq[i - 1])
          THEN <<ShiftStart(self) + steps - 1>> ELSE <<>>)
         \o <<seq[i]>>
         \o CumulativeEncoding(self, seq, i + 1, steps)

\* C7: for single-step shift tokens interleaved with events the encoder emits,
\* before each event that follows a shift run, one shift token carrying the
\* number of steps counted from the start of the tensor, and nothing for the
\* shift tokens after the last event; [1,1,1,161,1,1,1,162,1,1,1] becomes
\* [3,161,6,162].
C7_CumulativeShiftsNoTrailing ==
    (/\ stage = "encoded"
     /\ HasShift(codec)
     /\ OnlyCanonicalShifts(codec, input)
     /\ Cardinality({i \in 1..Len(input) : IsShiftToken(codec, input[i])})
            <= ShiftCapacity(codec))
        => /\ tokens = CumulativeEncoding(codec, input, 1, 0)
           /\ (codec = StepCodec /\ input = ShiftsTensor)
                 => tokens = <<3, 161, 6, 162>>

(***************************************************************************)
(* Claims about the remover and the merger, checked under SpecTargets.     *)
(***************************************************************************)
\* Position i of seq holds a token of a tracked state-change type.
TrackedAt(self, seq, i) ==
    /\ decode_event(self, seq[i]).status = "ok"
    /\ decode_event(self, seq[i]).type \in StateChangeTypes

\* Position i repeats the value of the most recent earlier token of its type.
RedundantAt(self, seq, i) ==
    /\ TrackedAt(self, seq, i)
    /\ \E j \in 1..(i - 1) :
          /\ TrackedAt(self, seq, j)
          /\ decode_event(self, seq[j]) = decode_event(self, seq[i])
          /\ \A k \in (j + 1)..(i - 1) :
                ~(/\ TrackedAt(self, seq, k)
                  /\ decode_event(self, seq[k]).type
                        = decode_event(self, seq[i]).type)

\* seq without its redundant positions, in input order.
Retained(self, seq) ==
    LET kept == {i \in 1..Len(seq) : ~RedundantAt(self, seq, i)}
        pos(k) == CHOOSE i \in kept : Cardinality({j \in kept : j <= i}) = k
    IN  [k \in 1..Cardinality(kept) |-> seq[pos(k)]]

\* C8: the remover drops a token of a tracked type exactly when its value
\* equals the most recent earlier value of that type, token 2 in between or
\* not, keeps every other token and keeps the order; with the test's codec
\* [3,525,356,161,2,525,356,161,355,394] becomes [3,525,356,161,2,161,355,394].
C8_RedundantStateChangesRemoved ==
    stage = "deduplicated" =>
        /\ tokens = Retained(codec, input)
        /\ (codec = TestCodec /\ input = StateChangeTensor)
              => tokens = StateChangeExpected

\* How often token v occurs in seq.
Occurrences(seq, v) == Cardinality({i \in 1..Len(seq) : seq[i] = v})

\* C9: the merged stream holds exactly the non-shift tokens of both rows (pad
\* excluded), in time order with the first row first at equal time and one
\* shift token before each group at a new time; with the test's codec
\* [[3,161,162,5,163],[160,164,3,165,0]] merges to
\* [160,164,3,161,162,165,5,163].
C9_MergedTargets ==
    /\ stage = "merged" =>
          \A v \in Range(targets[1]) \cup Range(targets[2]) :
              (v # pad_token /\ ~IsShiftToken(codec, v)) =>
                  Occurrences(tokens, v)
                      = Occurrences(targets[1], v) + Occurrences(targets[2], v)
    /\ (/\ stage \in {"merged", "merge raised"}
        /\ codec = TestCodec
        /\ targets = MergeTargets)
          => (stage = "merged" /\ tokens = MergeExpected)

\* Under a codec whose shift range is (1, max_shift_steps) the merger gives
\* what the test expects.
MergedTargetsUnderStepCodec ==
    (stage = "merged" /\ codec = StepCodec /\ targets = MergeTargets)
        => tokens = MergeExpected

(***************************************************************************)
(* Construction: EventRange, Codec and vocabularies.build_codec.           *)
(***************************************************************************)
MaxBins == 3       \* largest enumerated num_velocity_bins

\* VocabularyConfig's default num_velocity_bins.
default_num_velocity_bins == 32

\* EventRange(min_value, max_value): the dataclass and its __post_init__.
EventRange(min_value, max_value) ==
    IF min_value > max_value THEN ValueError
    ELSE [status |-> "ok", min_value |-> min_value, max_value |-> max_value]

\* Codec(event_types, event_ranges): __init__ has no raise statement and does
\* not build an EventRange; with a range for every listed type it returns.
Codec(event_types, event_ranges) ==
    [status |-> "ok", codec |-> CodecInit(event_types, event_ranges)]

VocabularyConfig(num_velocity_bins, onsets_only, include_ties) ==
    [num_velocity_bins |-> num_velocity_bins,
     onsets_only       |-> onsets_only,
     include_ties      |-> include_ties]

\* build_codec, were it to list 'velocity' and 'program' whatever onsets_only
\* says.
build_codec_with_velocity(vocab_config) ==
    LET event_types ==
            <<"note", "velocity", "program">>
            \o (IF vocab_config.include_ties THEN <<"tie">> ELSE <<>>)
        event_ranges ==
            [t \in {"note", "velocity", "program", "tie"} |->
                CASE t = "note"     -> <<0, 127>>
                  [] t = "velocity" -> <<0, vocab_config.num_velocity_bins - 1>>
                  [] t = "program"  -> <<0, 127>>
                  [] t = "tie"      -> <<0, 0>>]
    IN  Codec(event_types, event_ranges)

build_codec(vocab_config) ==
    LET event_types ==
            <<"note">>
            \o (IF ~vocab_config.onsets_only
                THEN <<"velocity", "program">> ELSE <<>>)
            \o (IF vocab_config.include_ties THEN <<"tie">> ELSE <<>>)
        event_ranges ==
            [t \in {"note", "velocity", "program", "tie"} |->
                CASE t = "note"     -> <<0, 127>>
                  [] t = "velocity" -> <<0, vocab_config.num_velocity_bins - 1>>
                  [] t = "program"  -> <<0, 127>>
                  [] t = "tie"      -> <<0, 0>>]
    IN  Codec(event_types, event_ranges)

\* The arguments of test_event_codec_initialization.
InitializationTypes == <<"note", "velocity", "program">>
InitializationRanges ==
    [t \in {"note", "velocity", "program"} |->
        IF t = "velocity" THEN <<0, 31>> ELSE <<0, 127>>]

\* Every argument pair the constructor is called with.
CodecArguments ==
    (TypeLists \X RangeMaps)
    \cup {<<InitializationTypes, InitializationRanges>>}

VocabularyConfigs ==
    {VocabularyConfig(n, o, t) :
        n \in (0..MaxBins) \cup {default_num_velocity_bins},
        o \in BOOLEAN, t \in BOOLEAN}

\* Before the first constructor call there is no codec.
NoCodec == [status |-> "no codec"]

InitConstruction ==
    /\ codec = NoCodec
    /\ call = NoCall
    /\ result = None
    /\ input = NoTensor
    /\ tokens = NoTensor
    /\ stage = "construction"
    /\ targets = NoTensor

\* A behaviour follows one codec object, so a codec is constructed once;
\* EventRange objects are built at any time and belong to no codec.
ConstructEventRange ==
    \E min_value \in 0..MaxVal, max_value \in 0..MaxVal :
        /\ call' = [op |-> "EventRange",
                    min_value |-> min_value, max_value |-> max_value]
        /\ result' = EventRange(min_value, max_value)
        /\ UNCHANGED <<codec, input, tokens, stage, targets>>

ConstructCodec ==
    \E args \in CodecArguments :
        LET r == Codec(args[1], args[2])
        IN  /\ codec = NoCodec
            /\ call' = [op |-> "Codec",
                        event_types |-> args[1], event_ranges |-> args[2]]
            /\ result' = [status |-> r.status]
            /\ codec' = IF r.status = "ok" THEN r.codec ELSE codec
            /\ UNCHANGED <<input, tokens, stage, targets>>

BuildCodec ==
    \E vocab_config \in VocabularyConfigs :
        LET r == build_codec(vocab_config)
        IN  /\ codec = NoCodec
            /\ call' = [op |-> "build_codec", vocab_config |-> vocab_config]
            /\ result' = [status |-> r.status]
            /\ codec' = IF r.status = "ok" THEN r.codec ELSE codec
            /\ UNCHANGED <<input, tokens, stage, targets>>

NextConstruction == ConstructEventRange \/ ConstructCodec \/ BuildCodec

SpecConstruction == InitConstruction /\ [][NextConstruction]_vars

(***************************************************************************)
(* Claims about construction, checked under SpecConstruction.              *)
(***************************************************************************)
\* Some listed type's range has min > max.
HasInvertedRange(event_types, event_ranges) ==
    \E t \in Range(event_types) : event_ranges[t][1] > event_ranges[t][2]

\* C11: construction fails with the invalid-range error whenever
\* min_value > max_value, both for an EventRange and for a Codec whose range
\* map holds such a pair for a registered type; no Codec with an inverted
\* range ever exists.
C11_InvertedRangeRejected ==
    /\ (call.op = "EventRange" /\ call.min_value > call.max_value)
          => result = ValueError
    /\ (call.op = "Codec"
        /\ HasInvertedRange(call.event_types, call.event_ranges))
          => result = ValueError
    /\ codec # NoCodec => ValidRanges(codec)

\* The EventRange half of C11 on its own; it holds.
EventRangeRejectsInverted ==
    call.op = "EventRange" =>
        (result = ValueError <=> call.min_value > call.max_value)

\* The number of values of one (min, max) pair.
RangeSize(r) == r[2] - r[1] + 1

\* The sum of the range sizes of the entries of a type list, front to back.
RECURSIVE SumOfSizes(_, _)
SumOfSizes(event_ranges, types) ==
    IF types = <<>> THEN 0
    ELSE RangeSize(event_ranges[Head(types)])
         + SumOfSizes(event_ranges, Tail(types))

\* C12: for every Codec, num_classes is num_special_tokens (3, with pad = 0,
\* sos = 1, eos = 2) plus the sum of max - min + 1 over the entries of the
\* event-type list, whatever other entries the range map holds; the types
\* note (0,127), velocity (0,31), program (0,127) give 291.
C12_NumClasses ==
    codec # NoCodec =>
        /\ codec.num_special_tokens = 3
        /\ codec.pad_token = 0
        /\ codec.sos_token = 1
        /\ codec.eos_token = 2
        /\ codec.num_classes
              = codec.num_special_tokens
                + SumOfSizes(codec.event_ranges, codec.event_types)
        /\ (/\ call.op = "Codec"
            /\ call.event_types = InitializationTypes
            /\ call.event_ranges = InitializationRanges)
              => codec.num_classes = 291

\* A codec that registers 'note' alone has been built from a range map that
\* also holds a three-valued 'shift' entry.
C12_Witness ==
    /\ call.op = "Codec"
    /\ call.event_types = <<"note">>
    /\ call.event_ranges["note"] = <<0, 1>>
    /\ call.event_ranges["shift"] = <<0, 2>>
    /\ codec.num_classes = 5

\* The type list the claim gives for a configuration.
ConfiguredTypes(vocab_config) ==
    CASE vocab_config.onsets_only /\ vocab_config.include_ties
            -> <<"note", "tie">>
      [] vocab_config.onsets_only /\ ~vocab_config.include_ties
            -> <<"note">>
      [] ~vocab_config.onsets_only /\ vocab_config.include_ties
            -> <<"note", "velocity", "program", "tie">>
      [] ~vocab_config.onsets_only /\ ~vocab_config.include_ties
            -> <<"note", "velocity", "program">>

\* C13: build_codec returns a Codec whose registered types are, in order,
\* 'note' always, 'velocity' then 'program' exactly when onsets_only is
\* false, and 'tie' exactly when include_ties is true, with velocity range
\* (0, num_velocity_bins - 1); a call with an equal config returns a codec
\* with the same type list, ranges and num_classes.
C13_BuildCodecFollowsConfig ==
    call.op = "build_codec" =>
        /\ result.status = "ok"
        /\ codec.event_types = ConfiguredTypes(call.vocab_config)
        /\ codec.event_ranges["velocity"]
              = <<0, call.vocab_config.num_velocity_bins - 1>>
        /\ ~call.vocab_config.onsets_only =>
              event_type_range(codec, "velocity")
                  = [status |-> "ok",
                     range  |-> <<0, call.vocab_config.num_velocity_bins - 1>>]
        /\ \A again \in VocabularyConfigs :
              again = call.vocab_config =>
                  LET r == build_codec(again)
                  IN  /\ r.status = "ok"
                      /\ r.codec.event_types = codec.event_types
                      /\ r.codec.event_ranges = codec.event_ranges
                      /\ r.codec.num_classes = codec.num_classes

\* build_codec has run on an onsets-only configuration with ties.
C13_Witness ==
    /\ call.op = "build_codec"
    /\ call.vocab_config.onsets_only
    /\ call.vocab_config.include_ties
    /\ call.vocab_config.num_velocity_bins = default_num_velocity_bins
    /\ codec.event_types = <<"note", "tie">>
    /\ codec.num_classes = 132

(***************************************************************************)
(* Claims about run_length_decode_shifts and about the tokens the          *)
(* run-length functions take for shift tokens, checked under SpecPipeline. *)
(***************************************************************************)
\* The number of output tokens that stand for token t of the input.
Width(self, t) ==
    IF IsShiftToken(self, t) THEN t - ShiftStart(self) + 1 ELSE 1

\* The position in the output of the last token that stands for seq[i].
RECURSIVE EndOf(_, _, _)
EndOf(self, seq, i) ==
    IF i = 0 THEN 0 ELSE EndOf(self, seq, i - 1) + Width(self, seq[i])

\* The tokens of seq outside the shift range, in order.
NonShift(self, seq) ==
    LET keep(t) == ~IsShiftToken(self, t) IN SelectSeq(seq, keep)

\* `decoded` is `encoded` with every token of the shift range replaced by its
\* copies of shift_start and every other token in its place.
DecodedFrom(self, encoded, decoded) ==
    /\ Len(decoded) = EndOf(self, encoded, Len(encoded))
    /\ \A i \in 1..Len(encoded) :
          \A k \in (EndOf(self, encoded, i - 1) + 1)..EndOf(self, encoded, i) :
              decoded[k] = IF IsShiftToken(self, encoded[i])
                         THEN ShiftStart(self) ELSE encoded[i]
    /\ \A k \in 1..Len(decoded) :
          IsShiftToken(self, decoded[k]) => decoded[k] = ShiftStart(self)
    /\ NonShift(self, decoded) = NonShift(self, encoded)

\* C14: run_length_decode_shifts replaces every token t of the shift range
\* (shift_start, shift_end) by exactly t - shift_start + 1 copies of
\* shift_start and copies every other token unchanged, in input order; the
\* output holds no token of the shift range but shift_start and its non-shift
\* subsequence is that of the input.
C14_DecodeExpandsShifts ==
    [][stage' \in {"decoded", "round trip"}
          => DecodedFrom(codec, tokens, tokens')]_vars

\* A tensor with a shift token above shift_start and a token outside the
\* shift range has been decoded.
C14_Witness ==
    /\ stage = "decoded"
    /\ HasShift(codec)
    /\ \E i \in 1..Len(input) :
          IsShiftToken(codec, input[i]) /\ input[i] > ShiftStart(codec)
    /\ \E i \in 1..Len(input) : ~IsShiftToken(codec, input[i])
    /\ Len(tokens) > Len(input)

\* decode_event maps the token to an event of type 'shift'.
DecodesToShift(self, token) ==
    LET e == decode_event(self, token)
    IN  e.status = "ok" /\ e.type = "shift"

\* C15: the tokens the run-length functions treat as shift tokens are exactly
\* those decode_event maps to a 'shift' event: a tensor without such a token
\* (special tokens and tokens of other types only) is neither merged nor
\* expanded, adjacent such tokens are merged, and when every input token is
\* such a token so is every output token.
C15_ShiftTokensAreDecodedShifts ==
    (stage \in {"encoded", "decoded"} /\ HasShift(codec)) =>
        /\ (\A i \in 1..Len(input) : ~DecodesToShift(codec, input[i]))
              => tokens = input
        /\ (/\ stage = "encoded"
            /\ Len(input) >= 2
            /\ \A i \in 1..Len(input) : DecodesToShift(codec, input[i]))
              => Len(tokens) < Len(input)
        /\ (\A i \in 1..Len(input) : DecodesToShift(codec, input[i]))
              => \A j \in 1..Len(tokens) : DecodesToShift(codec, tokens[j])

\* Where the shift range is the block decode_event gives to 'shift' (the
\* type is registered first and its minimum is num_special_tokens), the
\* functions leave a tensor without shift tokens alone.
NonShiftTokensKeptWhenRangeIsBlock ==
    (/\ stage \in {"encoded", "decoded"}
     /\ HasShift(codec)
     /\ codec.event_types[1] = "shift"
     /\ ShiftStart(codec) = codec.num_special_tokens
     /\ \A i \in 1..Len(input) : ~DecodesToShift(codec, input[i]))
        => tokens = input

====
